---- MODULE Spec2Model ----
(***************************************************************************)
(* Campaign outreach sequencing engine of Automeet: the sequence executor  *)
(* (emailSequenceExecutor.ts), the composer that sends one step            *)
(* (emailComposer.ts, class EmailComposer) and the two reply processors    *)
(* (replyDetectionService.ts, and class GmailThreadTracker in              *)
(* emailComposer.ts) with the reply classifier (replyAnalyzer.ts), and the *)
(* campaign status tracker with the campaign commands and the campaign     *)
(* metrics (CampaignStatusTracker.ts, campaignService), over the store     *)
(* tables they read and write.                                             *)
(*                                                                         *)
(* Time is counted in ticks, TicksPerDay ticks to the day; the executor's  *)
(* millisecond arithmetic is kept, in that unit.                           *)
(***************************************************************************)
EXTENDS Integers, Sequences, FiniteSets, Bags, TLC

\* ---------------------------------------------------------------- bounds
MaxTime == 2
MaxDelay == 1
MaxRuns == 2
MaxReplies == 2
MaxFaults == 1
MaxCalls == 3

MaxStep == 3

\* ------------------------------------------------------------- constants
TicksPerDay == 2

\* ------------------------------------------------------------ store data
Workers == {"w1", "w2"}

CampaignOrder == <<"c1", "c2", "c3">>

Campaigns == {"c1", "c2", "c3"}

Prospects == {"p1", "p2", "p3"}

\* prospects.campaign_id
campaign_id(p) == IF p = "p1" THEN "c1" ELSE "c2"

\* rows of `prospects` with campaign_id = c, in the order the store returns them
ProspectsOf(c) == IF c = "c1" THEN <<"p1">> ELSE IF c = "c2" THEN <<"p2", "p3">> ELSE <<>>

EngagementStatuses == {"new", "contacted", "replied", "meeting_scheduled", "completed"}

\* a trigger_condition object with its keys; <<>> is the empty object, the
\* column's default
Condition(type, value) == [type |-> type, value |-> value]

\* the conditions the campaigns' steps are configured with
TriggerConditions == {<<>>, Condition("prospect_replied", TRUE)}

OutreachSequence(n, d, t) == [step_number |-> n, delay_days |-> d, trigger_condition |-> t, is_active |-> TRUE]

\* the sequences a campaign can be configured with: dense step numbers from 1
SequenceConfigs == { << OutreachSequence(1, 0, <<>>), OutreachSequence(2, d, t), OutreachSequence(3, 0, <<>>) >> : d \in 0..MaxDelay, t \in TriggerConditions }

SiblingSequence == << OutreachSequence(1, 0, <<>>), OutreachSequence(2, 1, <<>>) >>

VARIABLES now, campaigns, outreach_sequences, engagement_status, campaign_progress, email_events, email_threads, mailbox, ex, rp, runs, replies, faults, tr

vars == <<now, campaigns, outreach_sequences, engagement_status, campaign_progress, email_events, email_threads, mailbox, ex, rp, runs, replies, faults, tr>>

store == <<campaigns, outreach_sequences, engagement_status, campaign_progress, email_events, email_threads, mailbox>>

\* ------------------------------------------------------- helper operators
\* a worker of the executor that is not running; thrown is the error its last
\* invocation was rejected with
IdleWorker == [pc |-> "idle", campaigns |-> <<>>, ci |-> 0, pi |-> 0, progress |-> <<>>, nextStep |-> <<>>, messageId |-> "none", existing |-> <<>>, stamp |-> 0, thrown |-> "none"]

\* the reply processor at rest; before is the status the prospect had when the
\* reply now in process arrived
IdleReply == [pc |-> "idle", prospect |-> "p1", before |-> "new", analysis |-> <<>>, existing |-> <<>>]

\* the status tracker and the campaign commands at rest; calls counts the
\* calls made of them, thrown is the error the last scheduled-to-active run
\* was rejected with
IdleTracker == [sched |-> [pc |-> "idle", campaigns |-> <<>>, i |-> 0, stamp |-> 0, thrown |-> "none"],
                eng |-> [pc |-> "idle", campaigns |-> <<>>, i |-> 0, total |-> 0],
                act |-> [pc |-> "idle", campaign |-> "c1"],
                met |-> [pc |-> "idle", campaign |-> "c1", replyRate |-> <<0, 1>>, meetingRate |-> <<0, 1>>, engagementRate |-> <<0, 1>>],
                calls |-> 0]

\* a row of campaigns in the given status, due at time t: a timestamp column is
\* <<>> when null. started_at is set once the campaign has been activated,
\* completed_at once it has been completed; performance_metrics is <<>> for the
\* default, the empty object
Campaign(status, t) ==
    [status |-> status, scheduled_start_time |-> t,
     started_at |-> IF status \in {"active", "paused", "completed"} THEN <<0>> ELSE <<>>,
     completed_at |-> IF status = "completed" THEN <<0>> ELSE <<>>,
     performance_metrics |-> <<>>]

\* the state after construction, campaign c2 having status s2; c3 is a draft
\* without prospects
InitWith(s2) ==
    /\ now = 0
    /\ tr = IdleTracker
    /\ campaigns = [c \in Campaigns |-> Campaign(IF c = "c1" THEN "active" ELSE IF c = "c2" THEN s2 ELSE "draft", 0)]
    /\ outreach_sequences \in { [c \in Campaigns |-> IF c = "c1" THEN q ELSE SiblingSequence] : q \in SequenceConfigs }
    /\ engagement_status = [p \in Prospects |-> "new"]
    /\ campaign_progress = [p \in Prospects |-> <<>>]
    /\ email_events = [p \in Prospects |-> EmptyBag]
    /\ email_threads = [p \in Prospects |-> <<>>]
    /\ mailbox = [p \in Prospects |-> <<>>]
    /\ ex = [w \in Workers |-> IdleWorker]
    /\ rp = IdleReply
    /\ runs = 0
    /\ replies = 0
    /\ faults = 0

Init == InitWith("active")

InitSeq == InitWith("paused")

\* ------------------------------------------------------ sequence executor
IsActiveStep(s) == s.is_active

RECURSIVE InsertByStep(_, _)
InsertByStep(s, sorted) ==
    IF sorted = <<>> THEN <<s>>
    ELSE IF s.step_number < Head(sorted).step_number THEN <<s>> \o sorted
    ELSE <<Head(sorted)>> \o InsertByStep(s, Tail(sorted))

RECURSIVE OrderByStep(_)
OrderByStep(rows) == IF rows = <<>> THEN <<>> ELSE InsertByStep(Head(rows), OrderByStep(Tail(rows)))

\* a query that forgets the is_active filter
getOutreachSequencesAll(c) == OrderByStep(outreach_sequences[c])

\* getOutreachSequences: the active steps of the campaign, by step_number ascending
getOutreachSequences(c) == OrderByStep(SelectSeq(outreach_sequences[c], IsActiveStep))

IsActiveCampaign(c) == campaigns[c].status = "active"

CurCampaign(w) == ex[w].campaigns[ex[w].ci]

CurProspect(w) == ProspectsOf(CurCampaign(w))[ex[w].pi]

\* trigger_condition && Object.keys(trigger_condition).length > 0
HasTrigger(s) == DOMAIN s.trigger_condition # {}

\* condition.key === v: false for a key the object does not have
StrictEquals(condition, key, v) == key \in DOMAIN condition /\ condition[key] = v

\* the 'opened' rows of email_events of the prospect
OpenedEvents(p) == { e \in BagToSet(email_events[p]) : e.event_type = "opened" }

\* a trigger evaluator that lets every step through
evaluateTriggerConditionAlways(p, condition) == TRUE

\* a previous_opened test that forgets the 7 days
evaluateTriggerConditionAnyOpen(p, condition) ==
    IF StrictEquals(condition, "type", "prospect_replied") /\ StrictEquals(condition, "value", TRUE) THEN engagement_status[p] = "replied"
    ELSE IF StrictEquals(condition, "type", "previous_opened") /\ StrictEquals(condition, "value", TRUE) THEN OpenedEvents(p) # {}
    ELSE TRUE

\* evaluateTriggerCondition, every store read succeeding
evaluateTriggerCondition(p, condition) ==
    IF StrictEquals(condition, "type", "prospect_replied") /\ StrictEquals(condition, "value", TRUE) THEN engagement_status[p] = "replied"
    ELSE IF StrictEquals(condition, "type", "previous_opened") /\ StrictEquals(condition, "value", TRUE) THEN \E e \in OpenedEvents(p) : e.timestamp > now - 7 * TicksPerDay
    ELSE TRUE

\* a selection that takes the first active step above the current one
RECURSIVE getNextAvailableStepAbove(_, _, _)
getNextAvailableStepAbove(p, currentStep, sequences) ==
    IF sequences = <<>> THEN <<>>
    ELSE LET sequence == Head(sequences) IN
         IF sequence.step_number <= currentStep THEN getNextAvailableStepAbove(p, currentStep, Tail(sequences))
         ELSE IF HasTrigger(sequence) /\ ~evaluateTriggerCondition(p, sequence.trigger_condition) THEN getNextAvailableStepAbove(p, currentStep, Tail(sequences))
         ELSE IF engagement_status[p] \in {"meeting_scheduled", "completed"} THEN <<>>
         ELSE <<sequence>>

RECURSIVE getNextAvailableStep(_, _, _)
getNextAvailableStep(p, currentStep, sequences) ==
    IF sequences = <<>> THEN <<>>
    ELSE LET sequence == Head(sequences) IN
         IF sequence.step_number # currentStep + 1 THEN getNextAvailableStep(p, currentStep, Tail(sequences))
         ELSE IF HasTrigger(sequence) /\ ~evaluateTriggerCondition(p, sequence.trigger_condition) THEN getNextAvailableStep(p, currentStep, Tail(sequences))
         ELSE IF engagement_status[p] \in {"meeting_scheduled", "completed"} THEN <<>>
         ELSE <<sequence>>

\* a delay test that still waits at the exact end of the delay
DelayPassedStrict(lastSent, delayDays, t) == t - lastSent > delayDays * TicksPerDay

\* the delay test of shouldSendNextStep: FALSE while the delay has not passed
DelayPassed(lastSent, delayDays, t) == ~(t - lastSent < delayDays * TicksPerDay)

\* a step test that is off by one: the step the row already holds
shouldSendNextStepSameStep(p, nextStep, progress, t) ==
    IF progress = <<>> THEN nextStep.step_number = 1 /\ nextStep.delay_days = 0
    ELSE IF ~DelayPassed(progress[1].last_sent_at, nextStep.delay_days, t) THEN FALSE
    ELSE IF progress[1].current_step # nextStep.step_number THEN FALSE
    ELSE IF HasTrigger(nextStep) THEN evaluateTriggerCondition(p, nextStep.trigger_condition)
    ELSE TRUE

\* a first-step test that forgets the delay
shouldSendNextStepAnyDelay(p, nextStep, progress, t) ==
    IF progress = <<>> THEN nextStep.step_number = 1
    ELSE IF ~DelayPassed(progress[1].last_sent_at, nextStep.delay_days, t) THEN FALSE
    ELSE IF progress[1].current_step + 1 # nextStep.step_number THEN FALSE
    ELSE IF HasTrigger(nextStep) THEN evaluateTriggerCondition(p, nextStep.trigger_condition)
    ELSE TRUE

shouldSendNextStep(p, nextStep, progress, t) ==
    IF progress = <<>> THEN nextStep.step_number = 1 /\ nextStep.delay_days = 0
    ELSE IF ~DelayPassed(progress[1].last_sent_at, nextStep.delay_days, t) THEN FALSE
    ELSE IF progress[1].current_step + 1 # nextStep.step_number THEN FALSE
    ELSE IF HasTrigger(nextStep) THEN evaluateTriggerCondition(p, nextStep.trigger_condition)
    ELSE TRUE

\* a progress row that does not advance to the step just sent
ProgressRowStale(sequenceStep, t) == [current_step |-> sequenceStep.step_number - 1, last_sent_at |-> t, next_scheduled_at |-> <<t + sequenceStep.delay_days * TicksPerDay>>]

\* the row updateProgress writes for the step just sent; next_scheduled_at is a
\* nullable column, <<>> when null
ProgressRow(sequenceStep, t) == [current_step |-> sequenceStep.step_number, last_sent_at |-> t, next_scheduled_at |-> <<t + sequenceStep.delay_days * TicksPerDay>>]

\* a loop that comes back to the prospect it has just sent a step to
NextUnitSameProspect(e) ==
    IF e.pc = "upd_write"
    THEN [IdleWorker EXCEPT !.pc = "progress", !.campaigns = e.campaigns, !.ci = e.ci, !.pi = e.pi]
    ELSE IF e.pi < Len(ProspectsOf(e.campaigns[e.ci]))
    THEN [IdleWorker EXCEPT !.pc = "progress", !.campaigns = e.campaigns, !.ci = e.ci, !.pi = e.pi + 1]
    ELSE IF e.ci < Len(e.campaigns)
    THEN [IdleWorker EXCEPT !.pc = "campaign", !.campaigns = e.campaigns, !.ci = e.ci + 1]
    ELSE IdleWorker

\* the loops of processCampaignSequences and executeSequences move on
NextUnit(e) ==
    IF e.pi < Len(ProspectsOf(e.campaigns[e.ci]))
    THEN [IdleWorker EXCEPT !.pc = "progress", !.campaigns = e.campaigns, !.ci = e.ci, !.pi = e.pi + 1]
    ELSE IF e.ci < Len(e.campaigns)
    THEN [IdleWorker EXCEPT !.pc = "campaign", !.campaigns = e.campaigns, !.ci = e.ci + 1]
    ELSE IdleWorker

\* an exception in the handling of one prospect: every catch block rethrows,
\* and executeSequences is rejected with it
OnError(e, err) == [IdleWorker EXCEPT !.thrown = err]

\* a catch block that logs the failed send and lets the caller go on to updateProgress
OnSendErrorSwallowed(e) == [e EXCEPT !.pc = "upd_read"]

\* the Mailbox Provider send throws inside composeAndSendEmail
OnSendError(e) == OnError(e, "mailbox")

ExecuteSequences(w) ==
    /\ ex[w].pc = "idle"
    /\ runs < MaxRuns
    /\ runs' = runs + 1
    /\ LET active == SelectSeq(CampaignOrder, IsActiveCampaign) IN
       ex' = [ex EXCEPT ![w] = IF active = <<>> THEN IdleWorker ELSE [IdleWorker EXCEPT !.pc = "campaign", !.campaigns = active, !.ci = 1]]
    /\ UNCHANGED <<now, store, rp, replies, faults, tr>>

ProcessCampaignSequences(w) ==
    /\ ex[w].pc = "campaign"
    /\ ex' = [ex EXCEPT ![w] = IF ProspectsOf(CurCampaign(w)) = <<>> THEN NextUnit([ex[w] EXCEPT !.pi = 0]) ELSE [ex[w] EXCEPT !.pc = "progress", !.pi = 1]]
    /\ UNCHANGED <<now, store, rp, runs, replies, faults, tr>>

GetCurrentProgress(w) ==
    /\ ex[w].pc = "progress"
    /\ ex' = [ex EXCEPT ![w].pc = "nextstep", ![w].progress = campaign_progress[CurProspect(w)]]
    /\ UNCHANGED <<now, store, rp, runs, replies, faults, tr>>

GetNextAvailableStep(w) ==
    /\ ex[w].pc = "nextstep"
    /\ LET currentStep == IF ex[w].progress = <<>> THEN 0 ELSE ex[w].progress[1].current_step
           nextStep == getNextAvailableStep(CurProspect(w), currentStep, getOutreachSequences(CurCampaign(w)))
       IN ex' = [ex EXCEPT ![w] = IF nextStep = <<>> THEN NextUnit(ex[w]) ELSE [ex[w] EXCEPT !.pc = "should", !.nextStep = nextStep]]
    /\ UNCHANGED <<now, store, rp, runs, replies, faults, tr>>

ShouldSendNextStep(w) ==
    /\ ex[w].pc = "should"
    /\ ex' = [ex EXCEPT ![w] = IF shouldSendNextStep(CurProspect(w), ex[w].nextStep[1], ex[w].progress, now) THEN [ex[w] EXCEPT !.pc = "send"] ELSE NextUnit(ex[w])]
    /\ UNCHANGED <<now, store, rp, runs, replies, faults, tr>>

\* composeAndSendEmail up to the Mailbox Provider send
GmailSendEmail(w) ==
    /\ ex[w].pc = "send"
    /\ mailbox' = [mailbox EXCEPT ![CurProspect(w)] = Append(@, ex[w].nextStep[1].step_number)]
    /\ ex' = [ex EXCEPT ![w].pc = "log", ![w].messageId = "msg"]
    /\ UNCHANGED <<now, campaigns, outreach_sequences, engagement_status, campaign_progress, email_events, email_threads, rp, runs, replies, faults, tr>>

\* the row logEmailEvent inserts. email_events is held as the bag of its rows:
\* the timestamp column of a 'sent' or 'replied' row is written and never read
\* by the executor or the reply processors, and the table has no other order
EmailEvent(eventType, stepNumber) == [event_type |-> eventType, step_number |-> stepNumber]

\* the row recordEngagementEvent inserts for an open at time t
OpenedEvent(t) == [event_type |-> "opened", timestamp |-> t]

LogEmailEvent(w) ==
    /\ ex[w].pc = "log"
    /\ email_events' = [email_events EXCEPT ![CurProspect(w)] = @ (+) SetToBag({EmailEvent("sent", ex[w].nextStep[1].step_number)})]
    /\ ex' = [ex EXCEPT ![w].pc = "engage"]
    /\ UNCHANGED <<now, campaigns, outreach_sequences, engagement_status, campaign_progress, email_threads, mailbox, rp, runs, replies, faults, tr>>

UpdateProspectEngagement(w) ==
    /\ ex[w].pc = "engage"
    /\ engagement_status' = [engagement_status EXCEPT ![CurProspect(w)] = "contacted"]
    /\ ex' = [ex EXCEPT ![w].pc = "thread_read"]
    /\ UNCHANGED <<now, campaigns, outreach_sequences, campaign_progress, email_events, email_threads, mailbox, rp, runs, replies, faults, tr>>

\* .single(): the row when exactly one matches, no data otherwise
Single(rows) == IF Len(rows) = 1 THEN <<[id |-> 1, reply_count |-> rows[1].reply_count]>> ELSE <<>>

\* a new email_threads row
NewThread(threadId) == [thread_id |-> threadId, reply_count |-> 1]

UpdateEmailThreadRead(w) ==
    /\ ex[w].pc = "thread_read"
    /\ ex' = [ex EXCEPT ![w].pc = "thread_write", ![w].existing = Single(email_threads[CurProspect(w)])]
    /\ UNCHANGED <<now, store, rp, runs, replies, faults, tr>>

UpdateEmailThreadWrite(w) ==
    /\ ex[w].pc = "thread_write"
    /\ email_threads' = [email_threads EXCEPT ![CurProspect(w)] =
           IF ex[w].existing = <<>> THEN Append(@, NewThread("synthetic"))
           ELSE [@ EXCEPT ![ex[w].existing[1].id].reply_count = ex[w].existing[1].reply_count + 1]]
    /\ ex' = [ex EXCEPT ![w].pc = "upd_read", ![w].existing = <<>>]
    /\ UNCHANGED <<now, campaigns, outreach_sequences, engagement_status, campaign_progress, email_events, mailbox, rp, runs, replies, faults, tr>>

UpdateProgressRead(w) ==
    /\ ex[w].pc = "upd_read"
    /\ ex' = [ex EXCEPT ![w].pc = "upd_write", ![w].existing = campaign_progress[CurProspect(w)], ![w].stamp = now]
    /\ UNCHANGED <<now, store, rp, runs, replies, faults, tr>>

\* a table that takes a second row for the pair
UniqueViolationNever(rows) == FALSE

\* UNIQUE(campaign_id, prospect_id), rows being the rows of the pair: an insert
\* is rejected when there is one
UniqueViolation(rows) == rows # <<>>

\* the update of the rows of the pair, or the insert when the unique
\* constraint lets it through
UpdateProgressWrite(w) ==
    /\ ex[w].pc = "upd_write"
    /\ ex[w].existing # <<>> \/ ~UniqueViolation(campaign_progress[CurProspect(w)])
    /\ campaign_progress' = [campaign_progress EXCEPT ![CurProspect(w)] =
           IF ex[w].existing # <<>> THEN [i \in DOMAIN @ |-> ProgressRow(ex[w].nextStep[1], ex[w].stamp)]
           ELSE Append(@, ProgressRow(ex[w].nextStep[1], ex[w].stamp))]
    /\ ex' = [ex EXCEPT ![w] = NextUnit(ex[w])]
    /\ UNCHANGED <<now, campaigns, outreach_sequences, engagement_status, email_events, email_threads, mailbox, rp, runs, replies, faults, tr>>

\* the insert that hits UNIQUE(campaign_id, prospect_id): insertError, thrown
UpdateProgressConflict(w) ==
    /\ ex[w].pc = "upd_write"
    /\ ex[w].existing = <<>> /\ UniqueViolation(campaign_progress[CurProspect(w)])
    /\ ex' = [ex EXCEPT ![w] = OnError(ex[w], "unique")]
    /\ UNCHANGED <<now, store, rp, runs, replies, faults, tr>>

\* ------------------------------------------------------------ skipToNextStep
\* the place of prospect p among the prospects of its campaign
ProspectIndex(p) == CHOOSE i \in 1..Len(ProspectsOf(campaign_id(p))) : ProspectsOf(campaign_id(p))[i] = p

\* the prospects skipToNextStep is called for
Skipped == {"p1"}

\* skipToNextStep: the read of the Progress row; nothing to skip without one
SkipToNextStepRead(w, p) ==
    /\ ex[w].pc = "idle"
    /\ campaign_progress[p] # <<>> => campaign_progress[p][1].current_step < MaxStep
    /\ ex' = [ex EXCEPT ![w] = IF campaign_progress[p] = <<>> THEN IdleWorker
                               ELSE [IdleWorker EXCEPT !.pc = "skip_write", !.campaigns = <<campaign_id(p)>>, !.ci = 1, !.pi = ProspectIndex(p),
                                                       !.progress = campaign_progress[p], !.stamp = now]]
    /\ UNCHANGED <<now, store, rp, runs, replies, faults, tr>>

\* skipToNextStep: the update of current_step and last_sent_at
SkipToNextStepWrite(w) ==
    /\ ex[w].pc = "skip_write"
    /\ campaign_progress' = [campaign_progress EXCEPT ![CurProspect(w)] =
           [i \in DOMAIN @ |-> [@[i] EXCEPT !.current_step = ex[w].progress[1].current_step + 1, !.last_sent_at = ex[w].stamp]]]
    /\ ex' = [ex EXCEPT ![w] = IdleWorker]
    /\ UNCHANGED <<now, campaigns, outreach_sequences, engagement_status, email_events, email_threads, mailbox, rp, runs, replies, faults, tr>>

\* ------------------------------------------------------------ resumeSequence
\* the prospects resumeSequence is called for: one with a Progress row, one
\* without
Resumed == {"p1", "p2"}

\* a test that finds something to resume for every prospect
NothingToResumeNever(progress) == FALSE

\* !progress: no Progress row, nothing to resume
NothingToResume(progress) == progress = <<>>

\* resumeSequence: the read of the Progress row
ResumeSequenceRead(w, p) ==
    /\ ex[w].pc = "idle"
    /\ ex' = [ex EXCEPT ![w] = IF NothingToResume(campaign_progress[p]) THEN IdleWorker
                               ELSE [IdleWorker EXCEPT !.pc = "resume_write", !.campaigns = <<campaign_id(p)>>, !.ci = 1, !.pi = ProspectIndex(p),
                                                       !.progress = campaign_progress[p]]]
    /\ UNCHANGED <<now, store, rp, runs, replies, faults, tr>>

\* resumeSequence: the update of engagement_status, .eq('id', prospectId) and
\* no other filter
ResumeSequenceWrite(w) ==
    /\ ex[w].pc = "resume_write"
    /\ engagement_status' = [engagement_status EXCEPT ![CurProspect(w)] = "contacted"]
    /\ ex' = [ex EXCEPT ![w] = IdleWorker]
    /\ UNCHANGED <<now, campaigns, outreach_sequences, campaign_progress, email_events, email_threads, mailbox, rp, runs, replies, faults, tr>>

\* --------------------------------------------------------------- failures
ExecuteSequencesFails(w) ==
    /\ ex[w].pc = "idle"
    /\ runs < MaxRuns /\ faults < MaxFaults
    /\ runs' = runs + 1 /\ faults' = faults + 1
    /\ ex' = [ex EXCEPT ![w] = OnError(ex[w], "store")]
    /\ UNCHANGED <<now, store, rp, replies, tr>>

\* the Mailbox Provider send fails
GmailSendFails(w) ==
    /\ ex[w].pc = "send"
    /\ faults < MaxFaults
    /\ faults' = faults + 1
    /\ ex' = [ex EXCEPT ![w] = OnSendError(ex[w])]
    /\ UNCHANGED <<now, store, rp, runs, replies, tr>>

\* a store call whose error is thrown fails
StoreCallFails(w) ==
    /\ ex[w].pc \in {"campaign", "progress", "send", "engage", "thread_read", "thread_write", "upd_read", "upd_write"}
    /\ faults < MaxFaults
    /\ faults' = faults + 1
    /\ ex' = [ex EXCEPT ![w] = OnError(ex[w], "store")]
    /\ UNCHANGED <<now, store, rp, runs, replies, tr>>

\* the insert of the 'sent' event fails: logged, not thrown
LogEmailEventFails(w) ==
    /\ ex[w].pc = "log"
    /\ faults < MaxFaults
    /\ faults' = faults + 1
    /\ ex' = [ex EXCEPT ![w].pc = "engage"]
    /\ UNCHANGED <<now, store, rp, runs, replies, tr>>

\* the conditions evaluateTriggerCondition reads the store for
ReadsStore(condition) == StrictEquals(condition, "value", TRUE) /\ (StrictEquals(condition, "type", "prospect_replied") \/ StrictEquals(condition, "type", "previous_opened"))

\* an evaluator that takes the condition for met when its read fails
evaluateTriggerConditionFailsOpen == TRUE

\* evaluateTriggerCondition when its store read returns an error
evaluateTriggerConditionFails == FALSE

\* the active steps numbered currentStep + 1 for the progress the worker read
NextInLine(w) ==
    LET currentStep == IF ex[w].progress = <<>> THEN 0 ELSE ex[w].progress[1].current_step
        IsNext(s) == s.step_number = currentStep + 1
    IN SelectSeq(getOutreachSequences(CurCampaign(w)), IsNext)

\* getNextAvailableStep, the read of evaluateTriggerCondition failing for the
\* step next in line: the step is passed over
TriggerReadFails(w) ==
    /\ ex[w].pc = "nextstep"
    /\ faults < MaxFaults
    /\ NextInLine(w) # <<>> /\ ReadsStore(NextInLine(w)[1].trigger_condition)
    /\ faults' = faults + 1
    /\ LET currentStep == IF ex[w].progress = <<>> THEN 0 ELSE ex[w].progress[1].current_step
           nextStep == IF ~evaluateTriggerConditionFails THEN getNextAvailableStep(CurProspect(w), currentStep, Tail(NextInLine(w)))
                       ELSE IF engagement_status[CurProspect(w)] \in {"meeting_scheduled", "completed"} THEN <<>>
                       ELSE <<NextInLine(w)[1]>>
       IN ex' = [ex EXCEPT ![w] = IF nextStep = <<>> THEN NextUnit(ex[w]) ELSE [ex[w] EXCEPT !.pc = "should", !.nextStep = nextStep]]
    /\ UNCHANGED <<now, store, rp, runs, replies, tr>>

\* getNextAvailableStep, the read of the prospect's engagement_status failing
\* for the step next in line: logged, and the loop continues
StatusReadFails(w) ==
    /\ ex[w].pc = "nextstep"
    /\ faults < MaxFaults
    /\ NextInLine(w) # <<>>
    /\ HasTrigger(NextInLine(w)[1]) => evaluateTriggerCondition(CurProspect(w), NextInLine(w)[1].trigger_condition)
    /\ faults' = faults + 1
    /\ LET currentStep == IF ex[w].progress = <<>> THEN 0 ELSE ex[w].progress[1].current_step
           nextStep == getNextAvailableStep(CurProspect(w), currentStep, Tail(NextInLine(w)))
       IN ex' = [ex EXCEPT ![w] = IF nextStep = <<>> THEN NextUnit(ex[w]) ELSE [ex[w] EXCEPT !.pc = "should", !.nextStep = nextStep]]
    /\ UNCHANGED <<now, store, rp, runs, replies, tr>>

\* shouldSendNextStep, the read of evaluateTriggerCondition failing
ShouldSendNextStepFails(w) ==
    /\ ex[w].pc = "should"
    /\ faults < MaxFaults
    /\ ex[w].progress # <<>>
    /\ DelayPassed(ex[w].progress[1].last_sent_at, ex[w].nextStep[1].delay_days, now)
    /\ ex[w].progress[1].current_step + 1 = ex[w].nextStep[1].step_number
    /\ ReadsStore(ex[w].nextStep[1].trigger_condition)
    /\ faults' = faults + 1
    /\ ex' = [ex EXCEPT ![w] = IF evaluateTriggerConditionFails THEN [ex[w] EXCEPT !.pc = "send"] ELSE NextUnit(ex[w])]
    /\ UNCHANGED <<now, store, rp, runs, replies, tr>>

Tick ==
    /\ now < MaxTime
    /\ now' = now + 1
    /\ UNCHANGED <<store, ex, rp, runs, replies, faults, tr>>

ExecutorStep(w) ==
    \/ ExecuteSequences(w)
    \/ ProcessCampaignSequences(w)
    \/ GetCurrentProgress(w)
    \/ GetNextAvailableStep(w)
    \/ ShouldSendNextStep(w)
    \/ GmailSendEmail(w)
    \/ LogEmailEvent(w)
    \/ UpdateProspectEngagement(w)
    \/ UpdateEmailThreadRead(w)
    \/ UpdateEmailThreadWrite(w)
    \/ UpdateProgressRead(w)
    \/ UpdateProgressWrite(w)

ExecutorFault(w) ==
    \/ ExecuteSequencesFails(w)
    \/ GmailSendFails(w)
    \/ StoreCallFails(w)
    \/ LogEmailEventFails(w)

\* --------------------------------------------------------- reply classifier
\* what analyzeReplyWithAI returns, the safe default included; objection is TRUE
\* for a non-null string. needsInfo and objection only log, as interested does,
\* and are drawn FALSE. The sentiment goes to email_threads.sentiment, a column
\* that nothing here reads: it is left out of the rows.
Analyses == [meetingIntent : BOOLEAN, needsInfo : {FALSE}, objection : {FALSE}, interested : BOOLEAN, notInterested : BOOLEAN]

\* the prospects whose replies arrive
ReplyingProspects == {"p1"}

\* ------------------------------------------- ReplyDetectionService.processReply
\* the status handleAnalysisResult leaves, cur being the status before it
handleAnalysisResult(analysis, cur) ==
    IF analysis.meetingIntent THEN "meeting_scheduled"
    ELSE IF analysis.needsInfo THEN cur
    ELSE IF analysis.objection THEN cur
    ELSE IF analysis.interested THEN cur
    ELSE IF analysis.notInterested THEN "completed"
    ELSE cur

LogReplyEvent(p) ==
    /\ rp.pc = "idle"
    /\ replies < MaxReplies
    /\ replies' = replies + 1
    /\ email_events' = [email_events EXCEPT ![p] = @ (+) SetToBag({EmailEvent("replied", 0)})]
    /\ rp' = [IdleReply EXCEPT !.pc = "rds_thread_read", !.prospect = p, !.before = engagement_status[p]]
    /\ UNCHANGED <<now, campaigns, outreach_sequences, engagement_status, campaign_progress, email_threads, mailbox, ex, runs, faults, tr>>

ReplyUpdateEmailThreadRead ==
    /\ rp.pc = "rds_thread_read"
    /\ rp' = [rp EXCEPT !.pc = "rds_thread_write", !.existing = Single(email_threads[rp.prospect])]
    /\ UNCHANGED <<now, store, ex, runs, replies, faults, tr>>

ReplyUpdateEmailThreadWrite ==
    /\ rp.pc = "rds_thread_write"
    /\ email_threads' = [email_threads EXCEPT ![rp.prospect] =
           IF rp.existing = <<>> THEN Append(@, NewThread("gmail"))
           ELSE [@ EXCEPT ![rp.existing[1].id].reply_count = rp.existing[1].reply_count + 1]]
    /\ rp' = [rp EXCEPT !.pc = "rds_analyze", !.existing = <<>>]
    /\ UNCHANGED <<now, campaigns, outreach_sequences, engagement_status, campaign_progress, email_events, mailbox, ex, runs, replies, faults, tr>>

\* analyzeReplyContent: the classifier answers, handleAnalysisResult writes
AnalyzeReplyContent ==
    /\ rp.pc = "rds_analyze"
    /\ \E analysis \in Analyses :
        /\ engagement_status' = [engagement_status EXCEPT ![rp.prospect] = handleAnalysisResult(analysis, @)]
        /\ rp' = [rp EXCEPT !.pc = "rds_status", !.analysis = <<analysis>>]
    /\ UNCHANGED <<now, campaigns, outreach_sequences, campaign_progress, email_events, email_threads, mailbox, ex, runs, replies, faults, tr>>

\* processReply's closing updateProspectStatus(userId, fromEmail, 'replied')
UpdateProspectStatus ==
    /\ rp.pc = "rds_status"
    /\ engagement_status' = [engagement_status EXCEPT ![rp.prospect] = "replied"]
    /\ rp' = IdleReply
    /\ UNCHANGED <<now, campaigns, outreach_sequences, campaign_progress, email_events, email_threads, mailbox, ex, runs, replies, faults, tr>>

\* ------------------------------------------- GmailThreadTracker.processNewReply
\* the status the analysis branch of processNewReply leaves
processNewReply(analysis, cur) == IF analysis.meetingIntent THEN "meeting_scheduled" ELSE cur

\* a new reply found in thread i of prospect p: updateProspectEngagement(.., 'replied')
TrackerUpdateProspectEngagement(p, i) ==
    /\ rp.pc = "idle"
    /\ replies < MaxReplies
    /\ i \in 1..Len(email_threads[p])
    /\ replies' = replies + 1
    /\ engagement_status' = [engagement_status EXCEPT ![p] = "replied"]
    /\ rp' = [IdleReply EXCEPT !.pc = "gtt_log", !.prospect = p, !.before = engagement_status[p], !.existing = <<[id |-> i, reply_count |-> 0]>>]
    /\ UNCHANGED <<now, campaigns, outreach_sequences, campaign_progress, email_events, email_threads, mailbox, ex, runs, faults, tr>>

TrackerLogEmailEvent ==
    /\ rp.pc = "gtt_log"
    /\ email_events' = [email_events EXCEPT ![rp.prospect] = @ (+) SetToBag({EmailEvent("replied", 0)})]
    /\ rp' = [rp EXCEPT !.pc = "gtt_analyze"]
    /\ UNCHANGED <<now, campaigns, outreach_sequences, engagement_status, campaign_progress, email_threads, mailbox, ex, runs, replies, faults, tr>>

\* the classifier answers (and updateThreadSentiment)
TrackerAnalyze ==
    /\ rp.pc = "gtt_analyze"
    /\ \E analysis \in Analyses : rp' = [rp EXCEPT !.pc = "gtt_decide", !.analysis = <<analysis>>]
    /\ UNCHANGED <<now, store, ex, runs, replies, faults, tr>>

\* the analysis branch of processNewReply writes, and the processor returns
TrackerDecide ==
    /\ rp.pc = "gtt_decide"
    /\ engagement_status' = [engagement_status EXCEPT ![rp.prospect] = processNewReply(rp.analysis[1], @)]
    /\ rp' = IdleReply
    /\ UNCHANGED <<now, campaigns, outreach_sequences, campaign_progress, email_events, email_threads, mailbox, ex, runs, replies, faults, tr>>

ReplyStep ==
    \/ \E p \in ReplyingProspects : LogReplyEvent(p)
    \/ ReplyUpdateEmailThreadRead
    \/ ReplyUpdateEmailThreadWrite
    \/ AnalyzeReplyContent
    \/ UpdateProspectStatus
    \/ \E p \in ReplyingProspects : \E i \in 1..Len(email_threads[p]) : TrackerUpdateProspectEngagement(p, i)
    \/ TrackerLogEmailEvent
    \/ TrackerAnalyze
    \/ TrackerDecide

Sequential == {"w1"}

\* overlapping invocations of the executor, every call succeeding
NextOverlap ==
    \/ Tick
    \/ \E w \in Workers : ExecutorStep(w) \/ UpdateProgressConflict(w)

SpecOverlap == InitSeq /\ [][NextOverlap]_vars

\* one invocation at a time, every call succeeding
NextSeq ==
    \/ Tick
    \/ \E w \in Sequential : ExecutorStep(w)

SpecSeq == InitSeq /\ [][NextSeq]_vars

\* one invocation at a time and the reply processors, every call succeeding
NextReply ==
    \/ Tick
    \/ \E w \in Sequential : ExecutorStep(w)
    \/ ReplyStep

SpecReply == InitSeq /\ [][NextReply]_vars

\* one invocation at a time, store and mailbox calls failing at will
Next ==
    \/ Tick
    \/ \E w \in Sequential : ExecutorStep(w) \/ ExecutorFault(w)

Spec == Init /\ [][Next]_vars

\* one invocation at a time, and calls of skipToNextStep between them
NextSkip ==
    \/ Tick
    \/ \E w \in Sequential : ExecutorStep(w)
    \/ \E w \in Sequential : \E p \in Skipped : SkipToNextStepRead(w, p)
    \/ \E w \in Sequential : SkipToNextStepWrite(w)

SpecSkip == InitSeq /\ [][NextSkip]_vars

\* ------------------------------------------------------- trigger evaluator
\* the conditions a step can carry: the empty object, the two the evaluator
\* knows with value true and false, one of a type it does not know, and one
\* without a value
AllConditions == {<<>>, [type |-> "previous_opened"], Condition("other", TRUE)} \cup { Condition(type, value) : type \in {"prospect_replied", "previous_opened"}, value \in BOOLEAN }

\* the prospects whose opens are recorded
Opening == {"p1"}

\* EmailEngagementTracker.recordEngagementEvent(prospectId, .., 'opened'), one
\* open to the instant
RecordEngagementEvent(p) ==
    /\ CopiesIn(OpenedEvent(now), email_events[p]) = 0
    /\ email_events' = [email_events EXCEPT ![p] = @ (+) SetToBag({OpenedEvent(now)})]
    /\ UNCHANGED <<now, campaigns, outreach_sequences, engagement_status, campaign_progress, email_threads, mailbox, ex, rp, runs, replies, faults, tr>>

\* prospect p1 was sent step 1 more than seven days ago, and has or has not
\* replied; opens of it were recorded seven days ago to the instant and just
\* after; step 2 carries any of the conditions
InitContacted ==
    LET sent == -(7 * TicksPerDay) - 1 IN
    /\ now = 0
    /\ tr = IdleTracker
    /\ campaigns = [c \in Campaigns |-> Campaign(IF c = "c1" THEN "active" ELSE IF c = "c2" THEN "paused" ELSE "draft", 0)]
    /\ outreach_sequences \in { [c \in Campaigns |-> IF c = "c1" THEN << OutreachSequence(1, 0, <<>>), OutreachSequence(2, 0, t) >> ELSE SiblingSequence] : t \in AllConditions }
    /\ engagement_status \in { [p \in Prospects |-> IF p = "p1" THEN e ELSE "new"] : e \in {"contacted", "replied"} }
    /\ campaign_progress = [p \in Prospects |-> IF p = "p1" THEN <<ProgressRow(OutreachSequence(1, 0, <<>>), sent)>> ELSE <<>>]
    /\ email_events \in { [p \in Prospects |-> IF p = "p1" THEN SetToBag({EmailEvent("sent", 1)} \cup { OpenedEvent(t) : t \in opens }) ELSE EmptyBag] :
                            opens \in SUBSET {sent + 1, sent + 2} }
    /\ email_threads = [p \in Prospects |-> IF p = "p1" THEN <<NewThread("synthetic")>> ELSE <<>>]
    /\ mailbox = [p \in Prospects |-> IF p = "p1" THEN <<1>> ELSE <<>>]
    /\ ex = [w \in Workers |-> IdleWorker]
    /\ rp = IdleReply
    /\ runs = 0
    /\ replies = 0
    /\ faults = 0

\* one invocation at a time, opens being recorded between its steps
NextTrigger ==
    \/ Tick
    \/ \E w \in Sequential : ExecutorStep(w)
    \/ \E p \in Opening : RecordEngagementEvent(p)

SpecTrigger == InitContacted /\ [][NextTrigger]_vars

\* the reply processors, and calls of resumeSequence between their steps
NextResume ==
    \/ Tick
    \/ ReplyStep
    \/ \E w \in Sequential : \E p \in Resumed : ResumeSequenceRead(w, p)
    \/ \E w \in Sequential : ResumeSequenceWrite(w)

SpecResume == InitContacted /\ [][NextResume]_vars

\* one invocation at a time, the store reads of the eligibility checks failing
\* at will
NextClosed ==
    \/ Tick
    \/ \E w \in Sequential : ExecutorStep(w)
    \/ \E w \in Sequential : TriggerReadFails(w) \/ StatusReadFails(w) \/ ShouldSendNextStepFails(w)

SpecClosed == InitContacted /\ [][NextClosed]_vars

\* ------------------------------------------------------ classifier failure
\* what analyzeReply returns from its catch block, and analyzeReplyWithAI
\* without an API key; sentiment and followUpNeeded, which the processors do
\* not read, are kept in it
SafeDefault == [sentiment |-> "neutral", meetingIntent |-> FALSE, needsInfo |-> FALSE, objection |-> FALSE, interested |-> FALSE, notInterested |-> FALSE, followUpNeeded |-> TRUE]

\* a classifier that lets its failure out to the caller: no analysis
analyzeReplyThrows == <<>>

\* analyzeReplyWithAI when the model call throws, its output does not parse or
\* the API key is missing: <<analysis>>, or <<>> for an exception
analyzeReplyFails == <<SafeDefault>>

\* analyzeReplyContent, the classifier failing: an exception is caught and
\* logged, and processReply goes on
AnalyzeReplyContentFails ==
    /\ rp.pc = "rds_analyze"
    /\ faults < MaxFaults
    /\ faults' = faults + 1
    /\ engagement_status' = [engagement_status EXCEPT ![rp.prospect] = IF analyzeReplyFails = <<>> THEN @ ELSE handleAnalysisResult(analyzeReplyFails[1], @)]
    /\ rp' = [rp EXCEPT !.pc = "rds_status", !.analysis = analyzeReplyFails]
    /\ UNCHANGED <<now, campaigns, outreach_sequences, campaign_progress, email_events, email_threads, mailbox, ex, runs, replies, tr>>

\* processNewReply, the classifier failing: an exception is thrown again and
\* ends the processing
TrackerAnalyzeFails ==
    /\ rp.pc = "gtt_analyze"
    /\ faults < MaxFaults
    /\ faults' = faults + 1
    /\ rp' = IF analyzeReplyFails = <<>> THEN IdleReply ELSE [rp EXCEPT !.pc = "gtt_decide", !.analysis = analyzeReplyFails]
    /\ UNCHANGED <<now, store, ex, runs, replies, tr>>

\* the reply processors, the classifier failing at will
NextClassifier ==
    \/ Tick
    \/ ReplyStep
    \/ AnalyzeReplyContentFails
    \/ TrackerAnalyzeFails

SpecClassifier == InitContacted /\ [][NextClassifier]_vars

\* ------------------------------------------------- campaign status tracker
\* what the tracker and the campaign commands leave alone
outreach == <<outreach_sequences, engagement_status, campaign_progress, email_events, email_threads, mailbox, ex, rp, runs, replies>>

TrackerIdle == tr.sched.pc = "idle" /\ tr.eng.pc = "idle" /\ tr.act.pc = "idle"

\* a query that forgets the start time
IsScheduled(c, t) == campaigns[c].status = "scheduled"

\* .eq('status', 'scheduled').lte('scheduled_start_time', now)
IsDue(c, t) == campaigns[c].status = "scheduled" /\ campaigns[c].scheduled_start_time <= t

\* an activation that stamps started_at and leaves the status
activateCampaignStampOnly(rows, c, t) == [rows EXCEPT ![c].started_at = <<t>>]

\* the update of activateCampaign: .eq('id', campaignId) and no other filter
activateCampaign(rows, c, t) == [rows EXCEPT ![c].status = "active", ![c].started_at = <<t>>]

\* the update of completeCampaign: .eq('id', campaignId) and no other filter
completeCampaign(rows, c, t) == [rows EXCEPT ![c].status = "completed", ![c].completed_at = <<t>>]

\* a pause that applies whatever the status is
pauseCampaignAlways(rows, c) == [rows EXCEPT ![c].status = "paused"]

\* the update of pauseCampaign: .eq('id', campaignId).in('status', ['active'])
pauseCampaign(rows, c) == IF rows[c].status \in {"active"} THEN [rows EXCEPT ![c].status = "paused"] ELSE rows

\* the update of resumeCampaign: .eq('id', campaignId).eq('status', 'paused')
resumeCampaign(rows, c) == IF rows[c].status = "paused" THEN [rows EXCEPT ![c].status = "active"] ELSE rows

\* a count that takes replied for a final state
completedProspectsOrReplied(c) == Cardinality({ i \in 1..Len(ProspectsOf(c)) : engagement_status[ProspectsOf(c)[i]] \in {"completed", "meeting_scheduled", "replied"} })

\* the count of the campaign's prospects in a final state
completedProspects(c) == Cardinality({ i \in 1..Len(ProspectsOf(c)) : engagement_status[ProspectsOf(c)[i]] \in {"completed", "meeting_scheduled"} })

\* the loop of updateScheduledToActive moves on
SchedNext(s) == IF s.i < Len(s.campaigns) THEN [s EXCEPT !.i = s.i + 1] ELSE IdleTracker.sched

\* the loop of updateCampaignStatusByEngagement moves on
EngNext(e) == IF e.i < Len(e.campaigns) THEN [e EXCEPT !.pc = "total", !.i = e.i + 1, !.total = 0] ELSE IdleTracker.eng

\* updateScheduledToActive: the query for the due campaigns
UpdateScheduledToActive ==
    /\ tr.sched.pc = "idle"
    /\ tr.calls < MaxCalls
    /\ LET due == SelectSeq(CampaignOrder, LAMBDA c : IsDue(c, now)) IN
       tr' = [tr EXCEPT !.calls = @ + 1,
                        !.sched = IF due = <<>> THEN IdleTracker.sched
                                  ELSE [pc |-> "activate", campaigns |-> due, i |-> 1, stamp |-> now, thrown |-> "none"]]
    /\ UNCHANGED <<now, campaigns, outreach, faults>>

\* CampaignStatusTracker.activateCampaign for the next campaign of the loop
TrackerActivateCampaign ==
    /\ tr.sched.pc = "activate"
    /\ campaigns' = activateCampaign(campaigns, tr.sched.campaigns[tr.sched.i], now)
    /\ tr' = [tr EXCEPT !.sched = SchedNext(@)]
    /\ UNCHANGED <<now, outreach, faults>>

\* the error of the activation write is thrown again by every catch block
OnActivateError(s) == [IdleTracker.sched EXCEPT !.thrown = "store"]

\* the activation write fails
TrackerActivateCampaignFails ==
    /\ tr.sched.pc = "activate"
    /\ faults < MaxFaults
    /\ faults' = faults + 1
    /\ tr' = [tr EXCEPT !.sched = OnActivateError(@)]
    /\ UNCHANGED <<now, campaigns, outreach>>

\* updateCampaignStatusByEngagement: the query for the active campaigns
UpdateCampaignStatusByEngagement ==
    /\ tr.eng.pc = "idle"
    /\ tr.calls < MaxCalls
    /\ LET active == SelectSeq(CampaignOrder, IsActiveCampaign) IN
       tr' = [tr EXCEPT !.calls = @ + 1,
                        !.eng = IF active = <<>> THEN IdleTracker.eng
                                ELSE [pc |-> "total", campaigns |-> active, i |-> 1, total |-> 0]]
    /\ UNCHANGED <<now, campaigns, outreach, faults>>

\* evaluateCampaignCompletion: the count of the campaign's prospects
CountTotalProspects ==
    /\ tr.eng.pc = "total"
    /\ LET totalProspects == Len(ProspectsOf(tr.eng.campaigns[tr.eng.i])) IN
       tr' = [tr EXCEPT !.eng = [@ EXCEPT !.pc = IF totalProspects = 0 THEN "complete" ELSE "completed", !.total = totalProspects]]
    /\ UNCHANGED <<now, campaigns, outreach, faults>>

\* evaluateCampaignCompletion: the count of the prospects in a final state
CountCompletedProspects ==
    /\ tr.eng.pc = "completed"
    /\ tr' = [tr EXCEPT !.eng = IF completedProspects(@.campaigns[@.i]) = @.total THEN [@ EXCEPT !.pc = "complete"] ELSE EngNext(@)]
    /\ UNCHANGED <<now, campaigns, outreach, faults>>

\* CampaignStatusTracker.completeCampaign
CompleteCampaign ==
    /\ tr.eng.pc = "complete"
    /\ campaigns' = completeCampaign(campaigns, tr.eng.campaigns[tr.eng.i], now)
    /\ tr' = [tr EXCEPT !.eng = EngNext(@)]
    /\ UNCHANGED <<now, outreach, faults>>

PauseCampaign(c) ==
    /\ tr.calls < MaxCalls
    /\ campaigns' = pauseCampaign(campaigns, c)
    /\ tr' = [tr EXCEPT !.calls = @ + 1]
    /\ UNCHANGED <<now, outreach, faults>>

ResumeCampaign(c) ==
    /\ tr.calls < MaxCalls
    /\ campaigns' = resumeCampaign(campaigns, c)
    /\ tr' = [tr EXCEPT !.calls = @ + 1]
    /\ UNCHANGED <<now, outreach, faults>>

\* the scheduler's activateCampaign: the fetch and the status test, which
\* throws for a campaign that is not scheduled
ActivateCampaignFetch(c) ==
    /\ tr.act.pc = "idle"
    /\ tr.calls < MaxCalls
    /\ tr' = [tr EXCEPT !.calls = @ + 1,
                        !.act = IF campaigns[c].status # "scheduled" THEN IdleTracker.act ELSE [pc |-> "update", campaign |-> c]]
    /\ UNCHANGED <<now, campaigns, outreach, faults>>

\* the scheduler's activateCampaign: the update
ActivateCampaignUpdate ==
    /\ tr.act.pc = "update"
    /\ campaigns' = activateCampaign(campaigns, tr.act.campaign, now)
    /\ tr' = [tr EXCEPT !.act = IdleTracker.act]
    /\ UNCHANGED <<now, outreach, faults>>

\* the campaigns table the tracker can find: every status, start times due at
\* once or at the last instant, prospects short of or in a final state
InitTracker ==
    /\ now = 0
    /\ tr = IdleTracker
    /\ campaigns \in { [c \in Campaigns |-> IF c = "c1" THEN Campaign(s1, t1) ELSE IF c = "c2" THEN Campaign(s2, 0) ELSE Campaign(s3, 0)] :
                         s1 \in {"draft", "scheduled", "active", "paused", "completed"}, t1 \in {0, MaxTime},
                         s2 \in {"scheduled", "active"}, s3 \in {"scheduled", "active"} }
    /\ outreach_sequences = [c \in Campaigns |-> SiblingSequence]
    /\ engagement_status \in { [p \in Prospects |-> IF p = "p1" THEN e1 ELSE IF p = "p2" THEN "completed" ELSE e3] :
                                 e1 \in {"contacted", "completed"}, e3 \in {"replied", "meeting_scheduled"} }
    /\ campaign_progress = [p \in Prospects |-> <<>>]
    /\ email_events = [p \in Prospects |-> EmptyBag]
    /\ email_threads = [p \in Prospects |-> <<>>]
    /\ mailbox = [p \in Prospects |-> <<>>]
    /\ ex = [w \in Workers |-> IdleWorker]
    /\ rp = IdleReply
    /\ runs = 0
    /\ replies = 0
    /\ faults = 0

\* the campaigns the user's commands are issued for
Commanded == {"c1", "c2"}

\* the tracker's routines and the campaign commands, overlapping, the
\* activation write failing at will
NextTracker ==
    \/ Tick
    \/ UpdateScheduledToActive
    \/ TrackerActivateCampaign
    \/ TrackerActivateCampaignFails
    \/ UpdateCampaignStatusByEngagement
    \/ CountTotalProspects
    \/ CountCompletedProspects
    \/ CompleteCampaign
    \/ \E c \in Commanded : PauseCampaign(c) \/ ResumeCampaign(c) \/ ActivateCampaignFetch(c)
    \/ ActivateCampaignUpdate

SpecTracker == InitTracker /\ [][NextTracker]_vars

\* the same, one call at a time and every store call succeeding
NextTrackerSeq ==
    \/ Tick
    \/ TrackerIdle /\ UpdateScheduledToActive
    \/ TrackerActivateCampaign
    \/ TrackerIdle /\ UpdateCampaignStatusByEngagement
    \/ CountTotalProspects
    \/ CountCompletedProspects
    \/ CompleteCampaign
    \/ \E c \in Commanded : TrackerIdle /\ PauseCampaign(c)
    \/ \E c \in Commanded : TrackerIdle /\ ResumeCampaign(c)
    \/ \E c \in Commanded : TrackerIdle /\ ActivateCampaignFetch(c)
    \/ ActivateCampaignUpdate

SpecTrackerSeq == InitTracker /\ [][NextTrackerSeq]_vars

\* one invocation of the executor at a time, and pauseCampaign commands
\* between its steps
NextPause ==
    \/ Tick
    \/ \E w \in Sequential : ExecutorStep(w)
    \/ \E c \in Commanded : PauseCampaign(c)

SpecPause == Init /\ [][NextPause]_vars

\* ------------------------------------------------------- campaign metrics
\* the count of the campaign's prospects whose engagement_status is in statuses
CountProspects(c, statuses) == Cardinality({ i \in 1..Len(ProspectsOf(c)) : engagement_status[ProspectsOf(c)[i]] \in statuses })

\* a division without the test for no prospects
divideUnguarded(count, total) == <<count, total>>

\* the number each calculate... method returns, as <<numerator, denominator>>:
\* 0 when totalProspects === 0, count / totalProspects otherwise
divide(count, total) == IF total = 0 THEN <<0, 1>> ELSE <<count, total>>

calculateReplyRate(c) == divide(CountProspects(c, {"replied", "meeting_scheduled", "completed"}), CountProspects(c, EngagementStatuses))

calculateMeetingRate(c) == divide(CountProspects(c, {"meeting_scheduled", "completed"}), CountProspects(c, EngagementStatuses))

calculateEngagementRate(c) == divide(CountProspects(c, {"replied", "meeting_scheduled", "completed"}), CountProspects(c, EngagementStatuses))

\* updateCampaignMetrics(campaignId) up to the reply rate
CalculateReplyRate(c) ==
    /\ tr.met.pc = "idle"
    /\ tr.calls < MaxCalls
    /\ tr' = [tr EXCEPT !.calls = @ + 1, !.met = [IdleTracker.met EXCEPT !.pc = "meeting", !.campaign = c, !.replyRate = calculateReplyRate(c)]]
    /\ UNCHANGED <<now, campaigns, outreach, faults>>

CalculateMeetingRate ==
    /\ tr.met.pc = "meeting"
    /\ tr' = [tr EXCEPT !.met = [@ EXCEPT !.pc = "engagement", !.meetingRate = calculateMeetingRate(tr.met.campaign)]]
    /\ UNCHANGED <<now, campaigns, outreach, faults>>

CalculateEngagementRate ==
    /\ tr.met.pc = "engagement"
    /\ tr' = [tr EXCEPT !.met = [@ EXCEPT !.pc = "update", !.engagementRate = calculateEngagementRate(tr.met.campaign)]]
    /\ UNCHANGED <<now, campaigns, outreach, faults>>

\* updateCampaignMetrics: the update of performance_metrics
UpdateCampaignMetrics ==
    /\ tr.met.pc = "update"
    /\ campaigns' = [campaigns EXCEPT ![tr.met.campaign].performance_metrics =
           <<[reply_rate |-> tr.met.replyRate, meeting_booking_rate |-> tr.met.meetingRate, engagement_rate |-> tr.met.engagementRate, last_updated |-> now]>>]
    /\ tr' = [tr EXCEPT !.met = IdleTracker.met]
    /\ UNCHANGED <<now, outreach, faults>>

\* the prospects in every combination of statuses
InitMetrics ==
    /\ now = 0
    /\ tr = IdleTracker
    /\ campaigns = [c \in Campaigns |-> Campaign("active", 0)]
    /\ outreach_sequences = [c \in Campaigns |-> SiblingSequence]
    /\ engagement_status \in [Prospects -> EngagementStatuses]
    /\ campaign_progress = [p \in Prospects |-> <<>>]
    /\ email_events = [p \in Prospects |-> EmptyBag]
    /\ email_threads = [p \in Prospects |-> <<>>]
    /\ mailbox = [p \in Prospects |-> <<>>]
    /\ ex = [w \in Workers |-> IdleWorker]
    /\ rp = IdleReply
    /\ runs = 0
    /\ replies = 0
    /\ faults = 0

\* calls of updateCampaignMetrics, one at a time, with no writer of the
\* prospects between its counts
NextMetrics ==
    \/ \E c \in Campaigns : CalculateReplyRate(c)
    \/ CalculateMeetingRate
    \/ CalculateEngagementRate
    \/ UpdateCampaignMetrics

SpecMetrics == InitMetrics /\ [][NextMetrics]_vars

\* ------------------------------------------------ sequence configurations
\* a row of outreach_sequences with its is_active flag
Step(n, d, a) == [OutreachSequence(n, d, <<>>) EXCEPT !.is_active = a]

\* what a campaign can be configured with: no step at all, or three steps with
\* distinct numbers, each active or not, the first two with a delay
EditedConfigs == {<<>>} \cup { << Step(1, d1, a1), Step(2, d2, a2), Step(3, 0, a3) >> : d1 \in 0..MaxDelay, d2 \in 0..MaxDelay, a1 \in BOOLEAN, a2 \in BOOLEAN, a3 \in BOOLEAN }

\* campaign c1 active with any of the configurations, campaign c2 in status s2
InitEditedWith(s2) ==
    /\ now = 0
    /\ tr = IdleTracker
    /\ campaigns = [c \in Campaigns |-> Campaign(IF c = "c1" THEN "active" ELSE IF c = "c2" THEN s2 ELSE "draft", 0)]
    /\ outreach_sequences \in { [c \in Campaigns |-> IF c = "c1" THEN q ELSE SiblingSequence] : q \in EditedConfigs }
    /\ engagement_status = [p \in Prospects |-> "new"]
    /\ campaign_progress = [p \in Prospects |-> <<>>]
    /\ email_events = [p \in Prospects |-> EmptyBag]
    /\ email_threads = [p \in Prospects |-> <<>>]
    /\ mailbox = [p \in Prospects |-> <<>>]
    /\ ex = [w \in Workers |-> IdleWorker]
    /\ rp = IdleReply
    /\ runs = 0
    /\ replies = 0
    /\ faults = 0

InitEdited == InitEditedWith("active")

InitEditedSeq == InitEditedWith("paused")

\* one invocation at a time over the configurations, every call succeeding
SpecEdited == InitEdited /\ [][NextSeq]_vars

\* a delay is still running: until MaxTime, and for the longest delay after a
\* send
Elapsing == now < MaxTime \/ \E p \in Prospects : campaign_progress[p] # <<>> /\ now - campaign_progress[p][1].last_sent_at < MaxDelay * TicksPerDay

\* the clock goes on while a delay is running
TickOn ==
    /\ Elapsing
    /\ now' = now + 1
    /\ UNCHANGED <<store, ex, rp, runs, replies, faults, tr>>

\* the scheduler invokes executeSequences() again, beyond the invocations
\* counted
ExecuteSequencesAgain(w) ==
    /\ ex[w].pc = "idle"
    /\ runs = MaxRuns
    /\ LET active == SelectSeq(CampaignOrder, IsActiveCampaign) IN
       ex' = [ex EXCEPT ![w] = IF active = <<>> THEN IdleWorker ELSE [IdleWorker EXCEPT !.pc = "campaign", !.campaigns = active, !.ci = 1]]
    /\ UNCHANGED <<now, store, rp, runs, replies, faults, tr>>

\* one invocation after the other without end, every call succeeding
NextAgain ==
    \/ TickOn
    \/ \E w \in Sequential : ExecutorStep(w)
    \/ \E w \in Sequential : ExecuteSequencesAgain(w)

SpecAgain == InitEditedSeq /\ [][NextAgain]_vars

\* the scheduler keeps invoking executeSequences() and every call returns; the
\* clock keeps going
SpecAgainFair ==
    /\ SpecAgain
    /\ WF_vars(TickOn)
    /\ WF_vars(\E w \in Sequential : ExecutorStep(w) \/ ExecuteSequencesAgain(w))

\* overlapping invocations of the executor and calls of skipToNextStep, every
\* call succeeding
NextRace ==
    \/ Tick
    \/ \E w \in Workers : ExecutorStep(w) \/ UpdateProgressConflict(w)
    \/ \E w \in Workers : \E p \in Skipped : SkipToNextStepRead(w, p)
    \/ \E w \in Workers : SkipToNextStepWrite(w)

SpecRace == InitSeq /\ [][NextRace]_vars

\* ================================================================= claims
Terminal == {"meeting_scheduled", "completed"}

StepNumbers == 1..3

\* how many times the email of step n was delivered to prospect p
Delivered(p, n) == Cardinality({ i \in 1..Len(mailbox[p]) : mailbox[p][i] = n })

\* how many 'sent' events of step n the log holds for prospect p
SentEvents(p, n) == CopiesIn(EmailEvent("sent", n), email_events[p])

\* the worker is at the last prospect of the last campaign it enumerated
LastUnit(e) == e.ci = Len(e.campaigns) /\ e.pi = Len(ProspectsOf(e.campaigns[e.ci]))

\* the active steps numbered current_step + 1 for the prospect the worker is at
Candidates(w) ==
    LET currentStep == IF ex[w].progress = <<>> THEN 0 ELSE ex[w].progress[1].current_step
        IsNext(s) == s.step_number = currentStep + 1
    IN SelectSeq(getOutreachSequences(CurCampaign(w)), IsNext)

RepliedGated(w) == Len(Candidates(w)) = 1 /\ Candidates(w)[1].trigger_condition = Condition("prospect_replied", TRUE)

\* C1: under overlapping invocations of executeSequences() the email of a step
\* is delivered to a prospect at most once in total.
C1_SentAtMostOnceOverlapping == \A p \in Prospects : \A n \in StepNumbers : Delivered(p, n) <= 1

\* C2: over runs of executeSequences() one after the other, every call
\* succeeding, no prospect has two 'sent' events with the same step_number.
C2_SentAtMostOnce == \A p \in Prospects : \A n \in StepNumbers : SentEvents(p, n) <= 1 /\ Delivered(p, n) <= 1

\* two runs in immediate succession have returned, the first having sent step 1
C2_Witness == runs = 2 /\ now = 0 /\ ex["w1"].pc = "idle" /\ SentEvents("p1", 1) = 1

\* C3: for a prospect with Progress {current_step = N, last_sent_at = T}, not
\* halted, whose step N+1 has delay d and no trigger, the executor's decision at
\* time t is to send exactly when t - T >= d days, the boundary included.
C3_DelayRespected ==
    [][\A w \in Workers :
        (/\ ex[w].pc = "should" /\ ex'[w] # ex[w]
         /\ ex[w].progress # <<>>
         /\ ~HasTrigger(ex[w].nextStep[1])
         /\ ex[w].nextStep[1].step_number = ex[w].progress[1].current_step + 1
         /\ engagement_status[CurProspect(w)] \notin Terminal)
        => (ex'[w].pc = "send" <=> now - ex[w].progress[1].last_sent_at >= ex[w].nextStep[1].delay_days * TicksPerDay)]_vars

\* a step with a delay is about to be sent exactly when its delay ends
C3_Witness ==
    \E w \in Workers :
        /\ ex[w].pc = "send" /\ ex[w].progress # <<>>
        /\ ex[w].nextStep[1].delay_days > 0
        /\ now - ex[w].progress[1].last_sent_at = ex[w].nextStep[1].delay_days * TicksPerDay

\* C4: no step is delivered to a prospect whose engagement_status is
\* meeting_scheduled or completed.
C4_NoSendOnceHalted == [][\A p \in Prospects : engagement_status[p] \in Terminal => mailbox'[p] = mailbox[p]]_vars

\* C5: an invocation of executeSequences() returns only from the last prospect
\* of the last campaign it enumerated: no failure on the way ends the batch.
C5_BatchNotAborted == [][\A w \in Workers : (ex[w].pc # "idle" /\ ex'[w].pc = "idle") => LastUnit(ex[w])]_vars

\* C6: a failed Mailbox Provider send ends the handling of the prospect with its
\* Progress row as it was, and a Progress row only changes under a worker whose
\* send for that prospect succeeded.
C6_FailedSendLeavesProgress ==
    [][/\ \A w \in Workers : (ex[w].pc = "send" /\ faults' # faults) => (ex'[w].pc = "idle" /\ campaign_progress' = campaign_progress)
       /\ \A p \in Prospects : campaign_progress'[p] # campaign_progress[p] =>
            \E w \in Workers : ex[w].pc = "upd_write" /\ CurProspect(w) = p /\ ex[w].messageId = "msg"]_vars

\* the send of a prospect's first step has failed: no Progress row was created
C6_Witness == \E w \in Workers : ex[w].pc = "idle" /\ ex[w].thrown = "mailbox" /\ mailbox["p1"] = <<>> /\ campaign_progress["p1"] = <<>>

BothFlags(analysis) == analysis.notInterested /\ analysis.meetingIntent

\* C7: a classifier result with notInterested and meetingIntent both true makes
\* the reply processor write engagement_status completed.
C7_NotInterestedFirst ==
    [][/\ (rp.pc = "rds_analyze" /\ rp'.pc = "rds_status" /\ BothFlags(rp'.analysis[1])) => engagement_status'[rp.prospect] = "completed"
       /\ (rp.pc = "gtt_decide" /\ rp'.pc = "idle" /\ BothFlags(rp.analysis[1])) => engagement_status'[rp.prospect] = "completed"]_vars

\* C8: when the processing of a reply from a prospect in status contacted
\* finishes, the status is completed if the classifier said notInterested,
\* otherwise meeting_scheduled if it said meetingIntent, otherwise replied.
C8_FinalStatusFromClassifier ==
    [][(rp.pc \in {"rds_status", "gtt_decide"} /\ rp'.pc = "idle" /\ rp.before = "contacted")
        => engagement_status'[rp.prospect] =
             IF rp.analysis[1].notInterested THEN "completed"
             ELSE IF rp.analysis[1].meetingIntent THEN "meeting_scheduled"
             ELSE "replied"]_vars

\* C9: the processing of a reply that found the prospect in meeting_scheduled or
\* completed never sets the status to replied.
C9_NoRegressToReplied ==
    [][/\ (rp.pc = "idle" /\ rp'.pc # "idle" /\ rp'.before \in Terminal) => engagement_status'[rp'.prospect] # "replied"
       /\ (rp.pc # "idle" /\ rp.before \in Terminal) => engagement_status'[rp.prospect] # "replied"]_vars

\* C10: a step gated by prospect_replied is neither selected nor sent while the
\* status is contacted, and is selected and sent by the run that finds the
\* status replied, the delay elapsed and the step next in line.
C10_TriggerGating ==
    [][\A w \in Workers :
        /\ (ex[w].pc = "nextstep" /\ ex'[w] # ex[w] /\ RepliedGated(w) /\ engagement_status[CurProspect(w)] = "contacted")
            => ex'[w].pc # "should"
        /\ (ex[w].pc = "nextstep" /\ ex'[w] # ex[w] /\ RepliedGated(w) /\ engagement_status[CurProspect(w)] = "replied")
            => (ex'[w].pc = "should" /\ ex'[w].nextStep = Candidates(w))
        /\ (/\ ex[w].pc = "should" /\ ex'[w] # ex[w]
            /\ ex[w].nextStep[1].trigger_condition = Condition("prospect_replied", TRUE)
            /\ ex[w].progress # <<>>
            /\ ex[w].nextStep[1].step_number = ex[w].progress[1].current_step + 1
            /\ now - ex[w].progress[1].last_sent_at >= ex[w].nextStep[1].delay_days * TicksPerDay)
            => (ex'[w].pc = "send" <=> engagement_status[CurProspect(w)] = "replied")
        /\ (ex[w].pc = "send" /\ mailbox' # mailbox /\ ex[w].nextStep[1].trigger_condition = Condition("prospect_replied", TRUE))
            => engagement_status[CurProspect(w)] \notin {"new", "contacted"}]_vars

\* the gated step 2 has been delivered
C10_Witness == \E p \in Prospects : Delivered(p, 2) = 1 /\ outreach_sequences[campaign_id(p)][2].trigger_condition = Condition("prospect_replied", TRUE)

\* the campaign has no prospect, or all its prospects are in a final state
AllProspectsFinal(c) == \A i \in 1..Len(ProspectsOf(c)) : engagement_status[ProspectsOf(c)[i]] \in Terminal

C12_OnlyAllowedEdges ==
    [][\A c \in Campaigns : campaigns'[c].status # campaigns[c].status =>
        <<campaigns[c].status, campaigns'[c].status>> \in { <<"scheduled", "active">>, <<"active", "paused">>, <<"paused", "active">>, <<"active", "completed">> }]_vars

\* C13: a completed campaign stays completed, whatever run or command overlaps.
C13_CompletedIsFinal ==
    [][\A c \in Campaigns : campaigns[c].status = "completed" => campaigns'[c].status = "completed"]_vars

\* C14: in every reachable state a campaign has completed_at set exactly when
\* its status is completed.
C14_CompletedAtIffCompleted == \A c \in Campaigns : campaigns[c].completed_at # <<>> <=> campaigns[c].status = "completed"

\* a step of one of the user's commands: it starts no routine and moves none
CommandStep == tr'.calls = tr.calls + 1 /\ tr'.sched = tr.sched /\ tr'.eng = tr.eng /\ tr'.act = tr.act

\* C15: a pauseCampaign or resumeCampaign command changes a campaign row only
\* by taking it from active to paused or from paused to active, the status
\* being read at the moment of the write; in any other status the row is left
\* as it was.
C15_PauseResumeConditional ==
    [][CommandStep => \A c \in Campaigns :
        \/ campaigns'[c] = campaigns[c]
        \/ campaigns[c].status = "active" /\ campaigns'[c] = [campaigns[c] EXCEPT !.status = "paused"]
        \/ campaigns[c].status = "paused" /\ campaigns'[c] = [campaigns[c] EXCEPT !.status = "active"]]_vars

\* c2 was paused by a command, in the middle of a scheduled-to-active run
C15_Witness == campaigns["c2"].status = "paused" /\ tr.sched.pc = "activate"

\* C16: the completion write applies only to a campaign that is active at the
\* moment of the write: a campaign paused since the routine read it stays
\* paused.
C16_CompletionConditional ==
    [][\A c \in Campaigns : (campaigns'[c].status = "completed" /\ campaigns[c].status # "completed") => campaigns[c].status = "active"]_vars

\* C17: with every store call succeeding and one call at a time,
\* updateScheduledToActive() selects exactly the campaigns that are scheduled
\* with scheduled_start_time <= now, sets each of them, and nothing else, to
\* active with started_at stamped, and returns after the last of them.
C17_ActivatesExactlyDue ==
    [][/\ (tr.sched.pc = "idle" /\ tr'.sched.pc = "activate") =>
            /\ { tr'.sched.campaigns[i] : i \in 1..Len(tr'.sched.campaigns) } = { c \in Campaigns : campaigns[c].status = "scheduled" /\ campaigns[c].scheduled_start_time <= now }
            /\ Len(tr'.sched.campaigns) = Cardinality({ c \in Campaigns : campaigns[c].status = "scheduled" /\ campaigns[c].scheduled_start_time <= now })
            /\ tr'.sched.i = 1
       /\ tr.sched.pc = "activate" =>
            LET due == tr.sched.campaigns[tr.sched.i] IN
            \/ UNCHANGED <<campaigns, tr>>
            \/ /\ campaigns[due].status = "scheduled" /\ campaigns[due].scheduled_start_time <= tr.sched.stamp
               /\ campaigns' = [campaigns EXCEPT ![due].status = "active", ![due].started_at = <<now>>]
               /\ IF tr.sched.i < Len(tr.sched.campaigns) THEN tr'.sched.pc = "activate" /\ tr'.sched.i = tr.sched.i + 1 ELSE tr'.sched.pc = "idle"]_vars

\* a call made at time 1 has activated c2 and left c1, due later, scheduled
C17_Witness ==
    /\ TrackerIdle
    /\ campaigns["c2"].status = "active" /\ campaigns["c2"].started_at = <<1>>
    /\ campaigns["c1"].status = "scheduled" /\ campaigns["c1"].scheduled_start_time > now

\* C18: in updateScheduledToActive() a failed activation write for one due
\* campaign leaves the loop running for the due campaigns that follow it.
C18_ActivationFailureIsolated ==
    [][(tr.sched.pc = "activate" /\ faults' # faults /\ tr.sched.i < Len(tr.sched.campaigns)) => tr'.sched.pc = "activate"]_vars

\* C19: one invocation of executeSequences() sends at most one step to a
\* prospect: with the invocations made one after the other, a prospect has
\* received no more steps than invocations were started, even when the steps
\* that follow have no delay and no trigger.
C19_OneStepPerInvocation == \A p \in Prospects : Len(mailbox[p]) <= runs

\* the first invocation has returned having sent step 1 only, step 2 being
\* free of delay and of trigger
C19_Witness ==
    /\ runs = 1 /\ ex["w1"].pc = "idle" /\ mailbox["p1"] = <<1>>
    /\ outreach_sequences["c1"][2].delay_days = 0 /\ outreach_sequences["c1"][2].trigger_condition = <<>>

\* C20: the Progress row written after step S was sent has current_step =
\* S.step_number, last_sent_at = now, and next_scheduled_at = now + the delay of
\* the step that follows S, or null when S is the last step.
C20_ProgressAfterSend ==
    [][\A w \in Workers : (ex[w].pc = "upd_write" /\ campaign_progress' # campaign_progress) =>
        LET S == ex[w].nextStep[1]
            Follows(s) == s.step_number = S.step_number + 1
            following == SelectSeq(getOutreachSequences(CurCampaign(w)), Follows)
            row == campaign_progress'[CurProspect(w)][1]
        IN /\ row.current_step = S.step_number
           /\ row.last_sent_at = ex[w].stamp
           /\ row.next_scheduled_at = IF following = <<>> THEN <<>> ELSE <<ex[w].stamp + following[1].delay_days * TicksPerDay>>]_vars

\* C21: a Progress row with current_step = N >= 1 is only there after the email
\* of step N was sent to the prospect: no operation advances current_step
\* without a send.
C21_ProgressOnlyAfterSend ==
    \A p \in Prospects : \A i \in 1..Len(campaign_progress[p]) :
        campaign_progress[p][i].current_step >= 1 => Delivered(p, campaign_progress[p][i].current_step) >= 1

\* C22: when an external call fails while the executor handles a prospect's
\* step (the mailbox send, or a store call before or after it), nothing was
\* mutated for that prospect in that cycle: the email of the step is not
\* delivered, no 'sent' event of it is logged, and Progress is as it was read.
C22_FailureMutatesNothing ==
    [][\A w \in Workers :
        (faults' # faults /\ ex[w].pc \in {"send", "log", "engage", "thread_read", "thread_write", "upd_read", "upd_write"}) =>
            /\ Delivered(CurProspect(w), ex[w].nextStep[1].step_number) = 0
            /\ SentEvents(CurProspect(w), ex[w].nextStep[1].step_number) = 0
            /\ campaign_progress[CurProspect(w)] = ex[w].progress]_vars

C24_StatusNeverBackwards ==
    [][LET rank(s) == IF s = "new" THEN 0 ELSE IF s = "contacted" THEN 1 ELSE IF s = "replied" THEN 2 ELSE 3 IN
       \A p \in Prospects :
        /\ rank(engagement_status'[p]) >= rank(engagement_status[p])
        /\ engagement_status[p] = "meeting_scheduled" => engagement_status'[p] # "completed"]_vars

\* C25: in every reachable state there is at most one Progress row per
\* (campaign, prospect), also after two overlapping invocations both found no
\* row for the prospect and both tried to create one.
C25_OneProgressRow == \A p \in Prospects : Len(campaign_progress[p]) <= 1

\* two overlapping invocations found no row for p1: one has created it, the
\* insert of the other was rejected
C25_Witness == \E w \in Workers : ex[w].thrown = "unique" /\ Len(campaign_progress["p1"]) = 1 /\ Len(mailbox["p1"]) = 2

\* C26: in every reachable state there is at most one EmailThread row per
\* (prospect, campaign), also when a send and the processing of a reply for the
\* same prospect overlap and both find no thread.
C26_OneThreadRow == \A p \in Prospects : Len(email_threads[p]) <= 1

\* C27: no send and no reply processing, in any interleaving, writes to a
\* thread a reply_count smaller than the one the thread held.
C27_ReplyCountMonotonic ==
    [][\A p \in Prospects : \A i \in 1..Len(email_threads[p]) : email_threads'[p][i].reply_count >= email_threads[p][i].reply_count]_vars

\* C28: when the classifier fails internally it returns the safe default
\* (sentiment neutral, every intent flag false, followUpNeeded true) instead of
\* throwing: the reply processing goes on, completes, and leaves the prospect's
\* engagement_status at replied.
C28_ClassifierSafeDefault ==
    [][/\ (rp.pc \in {"rds_analyze", "gtt_analyze"} /\ faults' # faults) =>
            /\ rp'.pc = (IF rp.pc = "rds_analyze" THEN "rds_status" ELSE "gtt_decide")
            /\ Len(rp'.analysis) = 1
            /\ rp'.analysis[1].sentiment = "neutral" /\ rp'.analysis[1].followUpNeeded
            /\ ~rp'.analysis[1].meetingIntent /\ ~rp'.analysis[1].needsInfo /\ ~rp'.analysis[1].objection
            /\ ~rp'.analysis[1].interested /\ ~rp'.analysis[1].notInterested
       /\ (rp.pc \in {"rds_status", "gtt_decide"} /\ rp.analysis = <<SafeDefault>> /\ rp' # rp) =>
            (rp'.pc = "idle" /\ engagement_status'[rp.prospect] = "replied")]_vars

\* the processing of the one reply, in which the classifier failed, has
\* completed
C28_Witness == rp.pc = "idle" /\ replies = 1 /\ faults = 1 /\ engagement_status["p1"] = "replied"

\* C29: updateCampaignMetrics writes, from the campaign's prospects, reply_rate
\* = |{replied, meeting_scheduled, completed}| / total, meeting_booking_rate =
\* |{meeting_scheduled, completed}| / total and engagement_rate = reply_rate;
\* no rate has a zero denominator; with no prospect the three are 0, and
\* otherwise meeting_booking_rate <= reply_rate = engagement_rate <= 1.
C29_MetricsRates ==
    [][\A c \in Campaigns : campaigns'[c].performance_metrics # campaigns[c].performance_metrics =>
        LET m == campaigns'[c].performance_metrics[1]
            total == Len(ProspectsOf(c))
            replied == Cardinality({ i \in 1..total : engagement_status[ProspectsOf(c)[i]] \in {"replied", "meeting_scheduled", "completed"} })
            meeting == Cardinality({ i \in 1..total : engagement_status[ProspectsOf(c)[i]] \in {"meeting_scheduled", "completed"} })
            Is(r, n, d) == r[1] * d = n * r[2]
            Leq(r, s) == r[1] * s[2] <= s[1] * r[2]
        IN /\ m.reply_rate[2] > 0 /\ m.meeting_booking_rate[2] > 0 /\ m.engagement_rate[2] > 0
           /\ IF total = 0 THEN m.reply_rate[1] = 0 /\ m.meeting_booking_rate[1] = 0 /\ m.engagement_rate[1] = 0
              ELSE /\ Is(m.reply_rate, replied, total) /\ Is(m.meeting_booking_rate, meeting, total) /\ Is(m.engagement_rate, replied, total)
                   /\ Leq(m.meeting_booking_rate, m.reply_rate) /\ m.reply_rate = m.engagement_rate /\ Leq(m.reply_rate, <<1, 1>>)]_vars

\* the metrics of c3, which has no prospect, are written with the three rates
\* 0, and those of c2 with a meeting rate below its reply rate
C29_Witness ==
    /\ campaigns["c3"].performance_metrics # <<>> /\ campaigns["c3"].performance_metrics[1].reply_rate = <<0, 1>>
    /\ campaigns["c2"].performance_metrics # <<>>
    /\ campaigns["c2"].performance_metrics[1].reply_rate = <<2, 2>> /\ campaigns["c2"].performance_metrics[1].meeting_booking_rate = <<1, 2>>

\* C30: no step fires while a campaign is paused: an email is only sent to a
\* prospect whose campaign is active at the moment of the send, also when
\* pauseCampaign commits after executeSequences() has enumerated the active
\* campaigns and before it reaches that campaign's prospects.
C30_NoSendWhilePaused ==
    [][\A p \in Prospects : mailbox'[p] # mailbox[p] => campaigns[campaign_id(p)].status = "active"]_vars

\* the campaign has no active step: none defined, or all is_active = false
NoActiveStep(c) == SelectSeq(outreach_sequences[c], IsActiveStep) = <<>>

\* C31: for an active campaign with zero active steps executeSequences() is a
\* no-op for each of its prospects: nothing is sent, no Progress is written, no
\* engagement_status changes, no error is raised, and the invocation goes on
\* to what follows the prospect.
C31_NoActiveStepsNoOp ==
    [][/\ \A p \in Prospects : NoActiveStep(campaign_id(p)) =>
            /\ mailbox'[p] = mailbox[p] /\ campaign_progress'[p] = campaign_progress[p]
            /\ engagement_status'[p] = engagement_status[p] /\ email_events'[p] = email_events[p]
       /\ \A w \in Workers : (ex[w].pc \in {"progress", "nextstep"} /\ ex'[w] # ex[w] /\ NoActiveStep(CurCampaign(w))) =>
            /\ ex'[w].thrown = "none"
            /\ ex[w].pc = "progress" => ex'[w].pc = "nextstep"
            /\ ex[w].pc = "nextstep" =>
                 /\ ex'[w].pc \in {"progress", "campaign", "idle"}
                 /\ ex'[w].pc = "idle" <=> LastUnit(ex[w])
                 /\ ex'[w].pc = "campaign" => ex'[w].ci = ex[w].ci + 1]_vars

\* an invocation has returned: c1, whose steps are all inactive, got nothing,
\* and the prospects of c2, which follows it, got their step 1
C31_Witness ==
    /\ runs = 1 /\ ex["w1"].pc = "idle" /\ ex["w1"].thrown = "none"
    /\ outreach_sequences["c1"] # <<>> /\ NoActiveStep("c1")
    /\ mailbox["p1"] = <<>> /\ campaign_progress["p1"] = <<>> /\ engagement_status["p1"] = "new"
    /\ mailbox["p2"] = <<1>> /\ mailbox["p3"] = <<1>>

\* C32: updateScheduledToActive() and updateCampaignStatusByEngagement() are
\* idempotent: each write of a run takes a campaign the run's query still
\* selects, and when the run returns its query selects no campaign any more,
\* so that the same run made again, with no other change, writes nothing.
C32_TrackerIdempotent ==
    [][/\ tr.sched.pc = "activate" =>
            /\ campaigns' # campaigns => campaigns[tr.sched.campaigns[tr.sched.i]].status = "scheduled"
            /\ tr'.sched.pc = "idle" => \A c \in Campaigns : ~(campaigns'[c].status = "scheduled" /\ campaigns'[c].scheduled_start_time <= tr.sched.stamp)
       /\ tr.eng.pc \in {"total", "completed", "complete"} =>
            /\ campaigns' # campaigns => campaigns[tr.eng.campaigns[tr.eng.i]].status = "active"
            /\ tr'.eng.pc = "idle" => \A c \in Campaigns : campaigns'[c].status = "active" => ~AllProspectsFinal(c)
       /\ (TrackerIdle /\ UpdateScheduledToActive /\ \A c \in Campaigns : ~(campaigns[c].status = "scheduled" /\ campaigns[c].scheduled_start_time <= now))
            => (campaigns' = campaigns /\ tr'.sched.pc = "idle")
       /\ (TrackerIdle /\ UpdateCampaignStatusByEngagement /\ \A c \in Campaigns : campaigns[c].status = "active" => ~AllProspectsFinal(c))
            => (campaigns' = campaigns /\ \A c \in Campaigns : campaigns[c].status = "active" => ~AllProspectsFinal(c))]_vars

\* three calls have returned: the first activated c2 at time 1, the second
\* completed it, and the third left it as it was
C32_Witness ==
    /\ TrackerIdle /\ tr.calls = 3 /\ now = 1
    /\ campaigns["c2"].status = "completed" /\ campaigns["c2"].started_at = <<1>> /\ campaigns["c2"].completed_at = <<1>>

\* C33: the executor sends a prospect's steps in step_number order without
\* skipping: step 1 only when the run read no Progress row, step N+1 only when
\* the run read current_step = N; with one run after the other the steps
\* delivered to a prospect are 1, 2, 3, ... with no gap and no repeat.
C33_StepsInOrder ==
    [][\A w \in Workers : (ex[w].pc = "send" /\ mailbox' # mailbox) =>
        LET n == ex[w].nextStep[1].step_number
            p == CurProspect(w)
        IN /\ IF n = 1 THEN ex[w].progress = <<>> ELSE ex[w].progress # <<>> /\ ex[w].progress[1].current_step = n - 1
           /\ ex[w].progress = campaign_progress[p]
           /\ mailbox[p] = [i \in 1..(n - 1) |-> i]
           /\ mailbox'[p] = [i \in 1..n |-> i]]_vars

\* the three steps of c1 have been delivered to p1, in their order
C33_Witness == mailbox["p1"] = <<1, 2, 3>> /\ campaign_progress["p1"][1].current_step = 3

\* the active steps of the prospect's campaign have a gap at its position: none
\* is numbered current_step + 1 and a later one is active
GapAt(p) ==
    LET currentStep == IF campaign_progress[p] = <<>> THEN 0 ELSE campaign_progress[p][1].current_step
        active == SelectSeq(outreach_sequences[campaign_id(p)], IsActiveStep)
    IN /\ \A i \in 1..Len(active) : active[i].step_number # currentStep + 1
       /\ \E i \in 1..Len(active) : active[i].step_number > currentStep + 1

\* C34: while the active steps have a gap at the prospect's position the
\* executor skips the prospect, in every run: it selects no step for it, sends
\* it nothing and leaves its Progress as it is.
C34_GapSkipsProspect ==
    [][/\ \A p \in Prospects : GapAt(p) => (mailbox'[p] = mailbox[p] /\ campaign_progress'[p] = campaign_progress[p])
       /\ \A w \in Workers : (ex[w].pc = "nextstep" /\ ex'[w] # ex[w] /\ GapAt(CurProspect(w))) =>
            (ex'[w].pc \in {"progress", "campaign", "idle"} /\ ex'[w].thrown = "none")]_vars

\* step 2 of c1 is inactive and step 3 active: p1 got step 1, and the runs
\* made since, the delay long over, have returned without a send
C34_Witness ==
    /\ GapAt("p1") /\ campaign_progress["p1"] # <<>> /\ mailbox["p1"] = <<1>>
    /\ runs = MaxRuns /\ ex["w1"].pc = "idle" /\ ~Elapsing

\* C35: with no Progress row the executor sends only when the next step is
\* step 1 with delay_days = 0; for a campaign whose step 1 has a delay, a
\* prospect without a Progress row is never sent an email and never gets a
\* Progress row, however much time elapses.
C35_FirstStepNeedsNoDelay ==
    [][/\ \A w \in Workers : (ex[w].pc = "should" /\ ex'[w] # ex[w] /\ ex[w].progress = <<>>) =>
            (ex'[w].pc = "send" <=> (ex[w].nextStep[1].step_number = 1 /\ ex[w].nextStep[1].delay_days = 0))
       /\ \A p \in Prospects :
            (/\ campaign_progress[p] = <<>>
             /\ \E i \in 1..Len(outreach_sequences[campaign_id(p)]) :
                    LET s == outreach_sequences[campaign_id(p)][i] IN s.is_active /\ s.step_number = 1 /\ s.delay_days > 0)
            => (mailbox'[p] = <<>> /\ mailbox[p] = <<>> /\ campaign_progress'[p] = <<>>)]_vars

\* step 1 of c1 has a delay: the runs made up to the end of the clock have
\* sent p1 nothing
C35_Witness ==
    /\ outreach_sequences["c1"] # <<>> /\ outreach_sequences["c1"][1].is_active /\ outreach_sequences["c1"][1].delay_days = MaxDelay
    /\ now = MaxTime /\ runs = MaxRuns /\ ex["w1"].pc = "idle"
    /\ mailbox["p1"] = <<>> /\ campaign_progress["p1"] = <<>>

\* the prospect's campaign is active, its steps are all active, numbered from 1
\* without a gap and free of triggers, and step 1 has no delay
Runnable(p) ==
    LET steps == outreach_sequences[campaign_id(p)] IN
    /\ campaigns[campaign_id(p)].status = "active"
    /\ steps # <<>> /\ steps[1].delay_days = 0
    /\ \A i \in 1..Len(steps) : steps[i].is_active /\ steps[i].step_number = i /\ ~HasTrigger(steps[i])

\* C36: for an active campaign with steps 1..K, step 1 without delay and no
\* trigger, and a prospect who never replies: when executeSequences() is invoked
\* again and again, time goes on and every call succeeds, every step 1..K is
\* eventually sent and current_step reaches K, and nothing is sent after that.
C36_AllStepsEventuallySent ==
    <>[](\A p \in Prospects : Runnable(p) =>
            LET K == Len(outreach_sequences[campaign_id(p)]) IN
            /\ mailbox[p] = [i \in 1..K |-> i]
            /\ campaign_progress[p] # <<>> /\ campaign_progress[p][1].current_step = K)

\* the last step of c1 has been sent to p1 after the longest delay on step 2,
\* and a later run has returned
C36_Witness ==
    /\ Runnable("p1") /\ outreach_sequences["c1"][2].delay_days = MaxDelay
    /\ Len(mailbox["p1"]) = Len(outreach_sequences["c1"])
    /\ campaign_progress["p1"][1].current_step = Len(outreach_sequences["c1"])
    /\ ex["w1"].pc = "idle" /\ now > campaign_progress["p1"][1].last_sent_at

\* C37: current_step of a Progress row never decreases: under every
\* interleaving of overlapping executeSequences() invocations and
\* skipToNextStep calls, each write stores a value greater than or equal to the
\* one the row held.
C37_CurrentStepNeverDecreases ==
    [][\A p \in Prospects : \A i \in 1..Len(campaign_progress[p]) :
        campaign_progress'[p][i].current_step >= campaign_progress[p][i].current_step]_vars

\* C38: resumeSequence changes nothing when the prospect has no Progress row;
\* otherwise it sets the prospect's engagement_status to contacted whatever it
\* was, meeting_scheduled and completed included, and leaves the Progress row,
\* the campaign status and the event log as they were.
C38_ResumeSequenceFrame ==
    [][\A w \in Workers :
        /\ (ex[w].pc = "idle" /\ ex'[w].pc = "resume_write") =>
              (campaign_progress[ProspectsOf(ex'[w].campaigns[1])[ex'[w].pi]] # <<>> /\ store' = store)
        /\ (ex[w].pc = "resume_write" /\ ex'[w] # ex[w]) =>
              /\ ex'[w].pc = "idle"
              /\ engagement_status' = [engagement_status EXCEPT ![CurProspect(w)] = "contacted"]
              /\ campaign_progress' = campaign_progress /\ campaigns' = campaigns /\ email_events' = email_events
              /\ email_threads' = email_threads /\ mailbox' = mailbox /\ outreach_sequences' = outreach_sequences]_vars

\* a reply of p1 was classified as meeting intent, which set the status to
\* meeting_scheduled, and resumeSequence has set it back to contacted
C38_Witness ==
    /\ rp.pc = "rds_status" /\ rp.analysis[1].meetingIntent /\ ~rp.analysis[1].notInterested
    /\ ex["w1"].pc = "idle" /\ engagement_status["p1"] = "contacted" /\ campaign_progress["p1"] # <<>>

\* C39: the executor fails closed on store read errors during the eligibility
\* checks: when the read of engagement_status or of the email events fails in
\* a trigger evaluation or in the test for a halted prospect, the step is not
\* eligible, the run goes on to what follows the prospect without a send, and
\* Progress is unchanged.
C39_FailsClosed ==
    [][\A w \in Workers : (faults' # faults /\ ex[w].pc \in {"nextstep", "should"}) =>
        /\ ex'[w].pc \in {"progress", "campaign", "idle"}
        /\ ex'[w].pc = "progress" => (ex'[w].ci = ex[w].ci /\ ex'[w].pi = ex[w].pi + 1)
        /\ ex'[w].pc = "campaign" => ex'[w].ci = ex[w].ci + 1
        /\ mailbox' = mailbox /\ campaign_progress' = campaign_progress]_vars

\* p1 has replied and step 2, gated by prospect_replied, is due: the one run
\* made, in which a read failed, has returned without sending it
C39_Witness ==
    /\ faults = 1 /\ runs = 1 /\ ex["w1"].pc = "idle"
    /\ engagement_status["p1"] = "replied" /\ outreach_sequences["c1"][2].trigger_condition = Condition("prospect_replied", TRUE)
    /\ mailbox["p1"] = <<1>> /\ campaign_progress["p1"][1].current_step = 1

====
